---- MODULE Spec2Model ----
(***************************************************************************)
(* A model of the gfx-mem allocator stack:                                 *)
(*   RootAllocator     (src/src/root.rs)                                   *)
(*   ChunkedNode / ChunkedAllocator (src/src/chunked.rs)                   *)
(*   CombinedAllocator (src/src/combined.rs)                               *)
(*   SmartAllocator / Heap (src/src/smart.rs)                              *)
(* ArenaAllocator, alignment_shift and RawBlock live in files that are not *)
(* part of src/; they are modelled from spec.md (sections 3, 4.3).         *)
(*                                                                         *)
(* Every allocator method is a pure operator from the receiver's state,    *)
(* the owner's state and the device's state to a result record that holds  *)
(* the new states.  A Rust panic (failed assert!, unwrap on Err, index out *)
(* of bounds, arithmetic overflow in a build with overflow checks) is the  *)
(* result "panic".                                                         *)
(***************************************************************************)
EXTENDS Integers, Sequences, FiniteSets, Bags, TLC

VARIABLES
    allocators,  \* SmartAllocator.allocators: index -> CombinedAllocator
    heaps,       \* SmartAllocator.heaps: heap index -> Heap
    device,      \* the device memories allocated and not yet freed
    live,        \* bag of the blocks issued to the caller and not yet freed
    status,      \* "live", "disposed" (dispose returned Ok) or "panicked"
    ret          \* the last call and what it returned

vars == <<allocators, heaps, device, live, status, ret>>

-----------------------------------------------------------------------------
(* Bounds of the model *)

\* device memories that can be allocated at the same time; the device
\* reports OutOfMemory beyond
MaxMems == 2
\* blocks the caller holds at the same time
MaxLive == 3
\* arenas an ArenaAllocator creates over its life (next_arena_id)
MaxArenaId == 2

-----------------------------------------------------------------------------
(* Configuration: the arguments of SmartAllocator::new *)

arena_size == 17
chunks_per_block == 2
min_chunk_size == 4
max_chunk_size == 16

\* memory_properties.memory_types, in index order
MemoryTypes ==
    [i \in 0..1 |->
        IF i = 0 THEN [properties |-> {"DEVICE_LOCAL"}, heap_index |-> 1]
                 ELSE [properties |-> {"DEVICE_LOCAL", "CPU_VISIBLE"}, heap_index |-> 0]]

\* memory_properties.memory_heaps: the heap sizes
MemoryHeaps == [h \in 0..1 |-> IF h = 0 THEN 40 ELSE 6]

TypeIds == DOMAIN MemoryTypes
HeapIds == DOMAIN MemoryHeaps

\* the requests the caller makes: <<size, alignment>> pairs, type masks,
\* required properties, lifetime hints
ReqShapes ==
    [General |-> {<<1, 1>>, <<1, 8>>, <<5, 1>>, <<9, 1>>, <<17, 1>>},
     ShortLived |-> {<<1, 8>>, <<9, 1>>}]
\* the smaller set of pairs requested through the SmartAllocator
SmartReqShapes ==
    [General |-> {<<1, 1>>, <<5, 1>>, <<17, 1>>},
     ShortLived |-> {<<9, 1>>}]
ReqMasks == 1..3
ReqProps == {{"DEVICE_LOCAL"}, {"CPU_VISIBLE"}}
Types == {"ShortLived", "General"}
Mems == 1..MaxMems
DeviceErrors == {"OutOfMemory", "OutOfHostMemory"}
\* arithmetic overflow panics in a build with overflow checks ("debug") and
\* wraps otherwise ("release")
Builds == {"debug", "release"}

-----------------------------------------------------------------------------
(* Arithmetic helpers *)

Max(a, b) == IF a >= b THEN a ELSE b

RECURSIVE Pow2(_)
Pow2(n) == IF n = 0 THEN 1 ELSE 2 * Pow2(n - 1)

\* bitwise and of two naturals
RECURSIVE BitAnd(_, _)
BitAnd(a, b) ==
    IF a = 0 \/ b = 0 THEN 0
    ELSE (a % 2) * (b % 2) + 2 * BitAnd(a \div 2, b \div 2)

\* 64 - leading_zeros(n): the number of significant bits of n
RECURSIVE BitLen(_)
BitLen(n) == IF n = 0 THEN 0 ELSE 1 + BitLen(n \div 2)

\* crate::alignment_shift: distance from offset up to the next multiple
alignment_shift(alignment, offset) == (alignment - (offset % alignment)) % alignment

-----------------------------------------------------------------------------
(* Blocks and results *)

RawBlock(mem, start, end) == [mem |-> mem, start |-> start, end |-> end]
NoBlock == RawBlock(0, 0, 0)
Size(block) == block.end - block.start

\* what a sub-allocator call returns: the outcome, the block and its tag,
\* and the receiver (self), the owner (root) and the device after the call
Result(res, err, block, tag, self, root, dev) ==
    [res |-> res, err |-> err, block |-> block, tag |-> tag,
     self |-> self, root |-> root, dev |-> dev]

\* device.allocate_memory: a fresh memory, distinct from the live ones, or
\* an error.  Memories are opaque and compared by identity only, so the
\* fresh one is named by the least unused identity.
FreshMem(dev) == CHOOSE m \in Mems \ dev : \A n \in Mems \ dev : m <= n

DeviceOutcomes(dev) ==
    (IF Mems \ dev = {} THEN {}
     ELSE {[ok |-> TRUE, mem |-> FreshMem(dev), err |-> ""]})
    \cup {[ok |-> FALSE, mem |-> 0, err |-> e] : e \in DeviceErrors}

-----------------------------------------------------------------------------
(* RootAllocator *)

RootAllocator_new(id) == [id |-> id, allocations |-> 0]

\* RootAllocator_alloc that counts the allocation before the device answers
RootAllocator_alloc_counted(root, dev, d, reqs) ==
    IF ~d.ok
    THEN Result("Err", d.err, NoBlock, 0, [root EXCEPT !.allocations = @ + 1],
                [root EXCEPT !.allocations = @ + 1], dev)
    ELSE Result("Ok", "", RawBlock(d.mem, 0, reqs.size), 0,
                [root EXCEPT !.allocations = @ + 1],
                [root EXCEPT !.allocations = @ + 1], dev \cup {d.mem})

RootAllocator_alloc(root, dev, d, reqs) ==
    IF ~d.ok
    THEN Result("Err", d.err, NoBlock, 0, root, root, dev)
    ELSE LET root2 == [root EXCEPT !.allocations = @ + 1]
         IN Result("Ok", "", RawBlock(d.mem, 0, reqs.size), 0,
                   root2, root2, dev \cup {d.mem})

\* RootAllocator_free that does not call device.free_memory
RootAllocator_free_leak(root, dev, block) ==
    Result("Ok", "", NoBlock, 0, [root EXCEPT !.allocations = @ - 1],
           [root EXCEPT !.allocations = @ - 1], dev)

RootAllocator_free(root, dev, block) ==
    IF block.start # 0 \/ root.allocations = 0
    THEN Result("panic", "", NoBlock, 0, root, root, dev)
    ELSE LET root2 == [root EXCEPT !.allocations = @ - 1]
         IN Result("Ok", "", NoBlock, 0, root2, root2, dev \ {block.mem})

RootAllocator_is_used(root) == root.allocations # 0

RootAllocator_dispose(root, dev) ==
    IF RootAllocator_is_used(root)
    THEN Result("Err", "", NoBlock, 0, root, root, dev)
    ELSE Result("Ok", "", NoBlock, 0, root, root, dev)

\* owner.free(device, block) for each block of a drained sequence
RECURSIVE FreeAll(_, _, _)
FreeAll(root, dev, blocks) ==
    IF blocks = <<>>
    THEN Result("Ok", "", NoBlock, 0, root, root, dev)
    ELSE LET Rest(r) ==
                 IF r.res # "Ok" THEN r ELSE FreeAll(r.root, r.dev, Tail(blocks))
         IN Rest(RootAllocator_free(root, dev, Head(blocks)))

-----------------------------------------------------------------------------
(* ChunkedNode *)

ChunkedNode_new(chunk_size, cpb, id) ==
    [id |-> id, chunks_per_block |-> cpb, chunk_size |-> chunk_size,
     free |-> <<>>, blocks |-> <<>>]

ChunkedNode_count(node) == Len(node.blocks) * node.chunks_per_block

\* ChunkedNode_is_used that never reports a chunk in use
ChunkedNode_is_used_never(node) == FALSE

ChunkedNode_is_used(node) == ChunkedNode_count(node) # Len(node.free)

\* GrowChunks that leaves out the last chunk of the new block
GrowChunks_short(node) ==
    [i \in 1..(node.chunks_per_block - 1) |-> <<Len(node.blocks), i - 1>>]

\* the (blocks.len(), i) pairs pushed onto the back of the free queue
GrowChunks(node) ==
    [i \in 1..node.chunks_per_block |-> <<Len(node.blocks), i - 1>>]

\* GrowRequirements that asks for the bytes of one chunk
GrowRequirements_one_chunk(node) ==
    [type_mask |-> Pow2(node.id),
     size |-> node.chunk_size,
     alignment |-> node.chunk_size]

\* the requirements grow hands to its owner
GrowRequirements(node) ==
    [type_mask |-> Pow2(node.id),
     size |-> node.chunk_size * node.chunks_per_block,
     alignment |-> node.chunk_size]

ChunkedNode_grow(node, root, dev, d) ==
    LET reqs == GrowRequirements(node)
        Grown(r) ==
            IF r.res # "Ok"
            THEN Result("Err", r.err, NoBlock, 0, node, root, dev)
            ELSE IF \/ alignment_shift(reqs.alignment, r.block.start) # 0
                    \/ node.chunks_per_block > Size(r.block) \div node.chunk_size
            THEN Result("panic", "", NoBlock, 0, node, r.root, r.dev)
            ELSE Result("Ok", "", NoBlock, 0,
                        [node EXCEPT !.free = @ \o GrowChunks(node),
                                     !.blocks = Append(@, r.block)],
                        r.root, r.dev)
    IN Grown(RootAllocator_alloc(root, dev, d, reqs))

\* PopFree that reads the front entry and leaves it in the queue
PopFree_front(free) == [entry |-> Head(free), rest |-> free]

\* the queue entry alloc_no_grow takes, and the queue it leaves
PopFree(free) == [entry |-> Head(free), rest |-> Tail(free)]

\* Option<ChunkedBlock>: res "None", or "Ok" with the block and its tag
ChunkedNode_alloc_no_grow(node, root, dev) ==
    IF node.free = <<>>
    THEN Result("None", "", NoBlock, 0, node, root, dev)
    ELSE LET p == PopFree(node.free)
             block_index == p.entry[1]
             chunk_index == p.entry[2]
             offset == chunk_index * node.chunk_size
         IN IF block_index >= Len(node.blocks)
            THEN Result("panic", "", NoBlock, 0, node, root, dev)
            ELSE Result("Ok", "",
                        RawBlock(node.blocks[block_index + 1].mem,
                                 offset, node.chunk_size + offset),
                        block_index,
                        [node EXCEPT !.free = p.rest], root, dev)

ChunkedNode_alloc(node, root, dev, d, reqs) ==
    IF BitAnd(Pow2(node.id), reqs.type_mask) = 0
    THEN Result("Err", "NoCompatibleMemoryType", NoBlock, 0, node, root, dev)
    ELSE LET \* self.alloc_no_grow().unwrap() after a successful grow
             Unwrapped(g, b) ==
                 IF b.res = "Ok" THEN b
                 ELSE Result("panic", "", NoBlock, 0, g.self, g.root, g.dev)
             AfterGrow(g) ==
                 IF g.res # "Ok" THEN g
                 ELSE Unwrapped(g, ChunkedNode_alloc_no_grow(g.self, g.root, g.dev))
             First(a) ==
                 IF a.res = "Ok"
                 THEN IF \/ ~(Size(a.block) >= reqs.size)
                         \/ BitAnd(a.block.start, reqs.alignment - 1) # 0
                      THEN Result("panic", "", NoBlock, 0, a.self, root, dev)
                      ELSE a
                 ELSE IF a.res = "panic" THEN a
                 ELSE AfterGrow(ChunkedNode_grow(node, root, dev, d))
         IN First(ChunkedNode_alloc_no_grow(node, root, dev))

\* PushFree that pushes onto the back of the queue
PushFree_back(free, entry) == free \o <<entry>>

\* the entry free pushes, and where in the queue it goes
PushFree(free, entry) == <<entry>> \o free

ChunkedNode_free(node, root, dev, block, block_index) ==
    IF \/ block.start % node.chunk_size # 0
       \/ Size(block) # node.chunk_size
       \/ block_index >= Len(node.blocks)
    THEN Result("panic", "", NoBlock, 0, node, root, dev)
    ELSE IF node.blocks[block_index + 1].mem # block.mem
    THEN Result("panic", "", NoBlock, 0, node, root, dev)
    ELSE LET chunk_index == block.start \div node.chunk_size
         IN Result("Ok", "", NoBlock, 0,
                   [node EXCEPT !.free = PushFree(@, <<block_index, chunk_index>>)],
                   root, dev)

ChunkedNode_dispose(node, root, dev) ==
    IF ChunkedNode_is_used(node)
    THEN Result("Err", "", NoBlock, 0, node, root, dev)
    ELSE LET Drained(r) ==
                 Result(r.res, "", NoBlock, 0, [node EXCEPT !.blocks = <<>>],
                        r.root, r.dev)
         IN Drained(FreeAll(root, dev, node.blocks))

-----------------------------------------------------------------------------
(* ChunkedAllocator *)

ChunkedAllocator_new(cpb, min, max, id) ==
    [id |-> id, chunks_per_block |-> cpb, min_chunk_size |-> min,
     max_chunk_size |-> max, nodes |-> <<>>]

ChunkedAllocator_is_used(chunks) ==
    \E k \in 1..Len(chunks.nodes) : ChunkedNode_is_used(chunks.nodes[k])

\* pick_node that sends every size to class 0
pick_node_zero(chunks, size) == 0

\* size != 0 is asserted by the caller of this operator (PickPanics)
pick_node(chunks, size) == BitLen((size - 1) \div chunks.min_chunk_size)

PickPanics(size) == size = 0

ChunkSizeOf(chunks, index) == chunks.min_chunk_size * Pow2(index)

\* grow(size): the assertion, then nodes len..size are appended
GrowPanics(chunks, size) == ChunkSizeOf(chunks, size) > chunks.max_chunk_size

ChunkedAllocator_grow(chunks, size) ==
    LET len == Len(chunks.nodes)
    IN [chunks EXCEPT !.nodes =
            @ \o [j \in 1..Max(0, size + 1 - len) |->
                    ChunkedNode_new(ChunkSizeOf(chunks, len + j - 1),
                                    chunks.chunks_per_block, chunks.id)]]

\* EffectiveSize that forgets reqs.size
EffectiveSize_alignment(reqs) == reqs.alignment

\* the size alloc hands to pick_node
EffectiveSize(reqs) == Max(reqs.size, reqs.alignment)

\* the argument alloc hands to grow
GrowTo(index) == index + 1

ChunkedAllocator_alloc(chunks, root, dev, d, reqs) ==
    IF reqs.size > chunks.max_chunk_size
    THEN Result("Err", "OutOfMemory", NoBlock, 0, chunks, root, dev)
    ELSE IF PickPanics(EffectiveSize(reqs))
    THEN Result("panic", "", NoBlock, 0, chunks, root, dev)
    ELSE LET index == pick_node(chunks, EffectiveSize(reqs))
         IN IF GrowPanics(chunks, GrowTo(index))
            THEN Result("panic", "", NoBlock, 0, chunks, root, dev)
            ELSE LET Stored(grown, r) ==
                         [r EXCEPT !.self = [grown EXCEPT !.nodes[index + 1] = r.self]]
                     Served(grown) ==
                         Stored(grown, ChunkedNode_alloc(grown.nodes[index + 1],
                                                         root, dev, d, reqs))
                 IN Served(ChunkedAllocator_grow(chunks, GrowTo(index)))

ChunkedAllocator_free(chunks, root, dev, block, tag) ==
    IF PickPanics(Size(block))
    THEN Result("panic", "", NoBlock, 0, chunks, root, dev)
    ELSE LET index == pick_node(chunks, Size(block))
         IN IF index >= Len(chunks.nodes)
            THEN Result("panic", "", NoBlock, 0, chunks, root, dev)
            ELSE LET Stored(r) ==
                         [r EXCEPT !.self = [chunks EXCEPT !.nodes[index + 1] = r.self]]
                 IN Stored(ChunkedNode_free(chunks.nodes[index + 1], root, dev,
                                            block, tag))

\* node.dispose(owner, device).unwrap() for each node of the drained vector
RECURSIVE DisposeNodes(_, _, _)
DisposeNodes(nodes, root, dev) ==
    IF nodes = <<>>
    THEN Result("Ok", "", NoBlock, 0, <<>>, root, dev)
    ELSE LET Rest(r) ==
                 IF r.res # "Ok"
                 THEN Result("panic", "", NoBlock, 0, <<>>, r.root, r.dev)
                 ELSE DisposeNodes(Tail(nodes), r.root, r.dev)
         IN Rest(ChunkedNode_dispose(Head(nodes), root, dev))

ChunkedAllocator_dispose(chunks, root, dev) ==
    IF ChunkedAllocator_is_used(chunks)
    THEN Result("Err", "", NoBlock, 0, chunks, root, dev)
    ELSE LET Drained(r) ==
                 Result(r.res, "", NoBlock, 0, [chunks EXCEPT !.nodes = <<>>],
                        r.root, r.dev)
         IN Drained(DisposeNodes(chunks.nodes, root, dev))

-----------------------------------------------------------------------------
(* ArenaAllocator: spec.md section 4.3 (its source file is not in src/) *)

Arena_new(id, block) ==
    [id |-> id, block |-> block, used |-> 0, allocated |-> 0, freed |-> 0]

ArenaAllocator_new(size, id) ==
    [id |-> id, arena_size |-> size, arenas |-> <<>>, next_arena_id |-> 0]

align_up(x, alignment) == ((x + alignment - 1) \div alignment) * alignment

\* step 2: the request fits the arena after aligning its bump pointer
ArenaFits(arenas, arena, reqs) ==
    align_up(arena.used, reqs.alignment) + reqs.size <= arenas.arena_size

\* step 2: bump the arena and issue the slice
ArenaPlace(arena, reqs) ==
    LET candidate == align_up(arena.used, reqs.alignment)
    IN [arena |-> [arena EXCEPT !.used = candidate + reqs.size,
                                !.allocated = @ + 1],
        block |-> RawBlock(arena.block.mem,
                           arena.block.start + candidate,
                           arena.block.start + candidate + reqs.size)]

ArenaAllocator_alloc(arenas, root, dev, d, reqs) ==
    LET n == Len(arenas.arenas)
    IN IF BitAnd(Pow2(arenas.id), reqs.type_mask) = 0
       THEN Result("Err", "NoCompatibleMemoryType", NoBlock, 0, arenas, root, dev)
       ELSE IF n > 0 /\ ArenaFits(arenas, arenas.arenas[n], reqs)
       THEN LET p == ArenaPlace(arenas.arenas[n], reqs)
            IN Result("Ok", "", p.block, p.arena.id,
                      [arenas EXCEPT !.arenas[n] = p.arena], root, dev)
       ELSE IF reqs.size > arenas.arena_size
       THEN Result("Err", "OutOfMemory", NoBlock, 0, arenas, root, dev)
       ELSE LET Backed(r) ==
                    IF r.res # "Ok"
                    THEN Result("Err", r.err, NoBlock, 0, arenas, root, dev)
                    ELSE LET p == ArenaPlace(Arena_new(arenas.next_arena_id, r.block),
                                             reqs)
                         IN Result("Ok", "", p.block, p.arena.id,
                                   [arenas EXCEPT !.arenas = Append(@, p.arena),
                                                  !.next_arena_id = @ + 1],
                                   r.root, r.dev)
            IN Backed(RootAllocator_alloc(root, dev, d,
                        [type_mask |-> Pow2(arenas.id),
                         size |-> arenas.arena_size,
                         alignment |-> reqs.alignment]))

\* step 2 of free: retire drained arenas from the front of the FIFO, never
\* the newest one (the allocation target)
RECURSIVE ArenaRetire(_, _, _)
ArenaRetire(seq, root, dev) ==
    IF Len(seq) > 1 /\ Head(seq).freed = Head(seq).allocated
    THEN LET Rest(r) ==
                 IF r.res # "Ok"
                 THEN Result("panic", "", NoBlock, 0, seq, r.root, r.dev)
                 ELSE ArenaRetire(Tail(seq), r.root, r.dev)
         IN Rest(RootAllocator_free(root, dev, Head(seq).block))
    ELSE Result("Ok", "", NoBlock, 0, seq, root, dev)

ArenaAllocator_free(arenas, root, dev, block, arena_id) ==
    LET at == {k \in 1..Len(arenas.arenas) : arenas.arenas[k].id = arena_id}
    IN IF at = {}
       THEN Result("panic", "", NoBlock, 0, arenas, root, dev)
       ELSE LET k == CHOOSE k \in at : TRUE
                counted == [arenas.arenas EXCEPT ![k].freed = @ + 1]
                Retired(r) ==
                    Result(r.res, "", NoBlock, 0,
                           [arenas EXCEPT !.arenas = r.self], r.root, r.dev)
            IN Retired(ArenaRetire(counted, root, dev))

ArenaAllocator_is_used(arenas) ==
    \E k \in 1..Len(arenas.arenas) :
        arenas.arenas[k].allocated # arenas.arenas[k].freed

ArenaAllocator_dispose(arenas, root, dev) ==
    IF ArenaAllocator_is_used(arenas)
    THEN Result("Err", "", NoBlock, 0, arenas, root, dev)
    ELSE LET Drained(r) ==
                 Result(r.res, "", NoBlock, 0, [arenas EXCEPT !.arenas = <<>>],
                        r.root, r.dev)
         IN Drained(FreeAll(root, dev,
                    [k \in 1..Len(arenas.arenas) |-> arenas.arenas[k].block]))

-----------------------------------------------------------------------------
(* CombinedAllocator *)

CombinedAllocator_new(id, asize, cpb, min, max) ==
    [root |-> RootAllocator_new(id),
     arenas |-> ArenaAllocator_new(asize, id),
     chunks |-> ChunkedAllocator_new(cpb, min, max, id)]

\* CombinedBlock that tags every block Root
CombinedBlock_root(block, kind, tag) ==
    [mem |-> block.mem, start |-> block.start, end |-> block.end,
     kind |-> "Root", tag |-> 0]

\* CombinedBlock(RawBlock, CombinedTag): the tag is kind and, for Arena and
\* Chunked, the inner tag
CombinedBlock(block, kind, tag) ==
    [mem |-> block.mem, start |-> block.start, end |-> block.end,
     kind |-> kind, tag |-> tag]
NoCombinedBlock == CombinedBlock(NoBlock, "Root", 0)

\* what a CombinedAllocator call returns
CResult(res, err, block, self, dev) ==
    [res |-> res, err |-> err, block |-> block, self |-> self, dev |-> dev]

\* RootThreshold that reads the smallest chunk size
RootThreshold_min(c) == c.chunks.min_chunk_size

\* General requests above this size bypass the chunked child
RootThreshold(c) == c.chunks.max_chunk_size

CombinedAllocator_alloc(c, dev, d, ty, reqs) ==
    LET FromArenas(r) ==
            CResult(r.res, r.err,
                    IF r.res = "Ok" THEN CombinedBlock(r.block, "Arena", r.tag)
                                    ELSE NoCombinedBlock,
                    [c EXCEPT !.arenas = r.self, !.root = r.root], r.dev)
        FromRoot(r) ==
            CResult(r.res, r.err,
                    IF r.res = "Ok" THEN CombinedBlock(r.block, "Root", 0)
                                    ELSE NoCombinedBlock,
                    [c EXCEPT !.root = r.root], r.dev)
        FromChunks(r) ==
            CResult(r.res, r.err,
                    IF r.res = "Ok" THEN CombinedBlock(r.block, "Chunked", r.tag)
                                    ELSE NoCombinedBlock,
                    [c EXCEPT !.chunks = r.self, !.root = r.root], r.dev)
    IN IF ty = "ShortLived"
       THEN FromArenas(ArenaAllocator_alloc(c.arenas, c.root, dev, d, reqs))
       ELSE IF reqs.size > RootThreshold(c)
       THEN FromRoot(RootAllocator_alloc(c.root, dev, d, reqs))
       ELSE FromChunks(ChunkedAllocator_alloc(c.chunks, c.root, dev, d, reqs))

CombinedAllocator_free(c, dev, block) ==
    LET raw == RawBlock(block.mem, block.start, block.end)
        ToArenas(r) ==
            CResult(r.res, "", NoCombinedBlock,
                    [c EXCEPT !.arenas = r.self, !.root = r.root], r.dev)
        ToChunks(r) ==
            CResult(r.res, "", NoCombinedBlock,
                    [c EXCEPT !.chunks = r.self, !.root = r.root], r.dev)
        ToRoot(r) ==
            CResult(r.res, "", NoCombinedBlock, [c EXCEPT !.root = r.root], r.dev)
    IN IF block.kind = "Arena"
       THEN ToArenas(ArenaAllocator_free(c.arenas, c.root, dev, raw, block.tag))
       ELSE IF block.kind = "Chunked"
       THEN ToChunks(ChunkedAllocator_free(c.chunks, c.root, dev, raw, block.tag))
       ELSE ToRoot(RootAllocator_free(c.root, dev, raw))

\* the value is_used computes before its assertion
ChildrenUsed(c) ==
    ArenaAllocator_is_used(c.arenas) \/ ChunkedAllocator_is_used(c.chunks)

\* "true", "false", or "panic" when assert_eq!(used, root.is_used()) fails
CombinedAllocator_is_used(c) ==
    IF ChildrenUsed(c) # RootAllocator_is_used(c.root) THEN "panic"
    ELSE IF ChildrenUsed(c) THEN "true" ELSE "false"

\* KeptChunks with the disposed child always rebuilt from the configuration
KeptChunks_rebuilt(c, ch) ==
    ChunkedAllocator_new(c.chunks.chunks_per_block, c.chunks.min_chunk_size,
                         c.chunks.max_chunk_size, c.root.id)

\* the chunks child of the allocator a failed dispose returns
KeptChunks(c, ch) ==
    IF ch.res = "Err" THEN ch.self
    ELSE ChunkedAllocator_new(c.chunks.chunks_per_block, c.chunks.min_chunk_size,
                              c.chunks.max_chunk_size, c.root.id)

\* the arenas child of the allocator a failed dispose returns
KeptArenas(c, a) ==
    IF a.res = "Err" THEN a.self
    ELSE ArenaAllocator_new(c.arenas.arena_size, c.root.id)

CombinedAllocator_dispose(c, dev) ==
    LET \* a, ch: what arenas.dispose and chunks.dispose returned
        Both(a, ch) ==
            IF a.res = "panic"
            THEN CResult("panic", "", NoCombinedBlock, [c EXCEPT !.root = a.root], a.dev)
            ELSE IF ch.res = "panic"
            THEN CResult("panic", "", NoCombinedBlock, [c EXCEPT !.root = ch.root], ch.dev)
            ELSE IF a.res = "Err" \/ ch.res = "Err"
            THEN CResult("Err", "", NoCombinedBlock,
                         [root |-> ch.root, arenas |-> KeptArenas(c, a),
                          chunks |-> KeptChunks(c, ch)],
                         ch.dev)
            ELSE IF RootAllocator_dispose(ch.root, ch.dev).res # "Ok"
            THEN CResult("panic", "", NoCombinedBlock,
                         [root |-> ch.root, arenas |-> a.self, chunks |-> ch.self],
                         ch.dev)
            ELSE CResult("Ok", "", NoCombinedBlock,
                         [root |-> ch.root, arenas |-> a.self, chunks |-> ch.self],
                         ch.dev)
        ThenChunks(a) ==
            Both(a, ChunkedAllocator_dispose(c.chunks, a.root, a.dev))
    IN ThenChunks(ArenaAllocator_dispose(c.arenas, c.root, dev))

-----------------------------------------------------------------------------
(* Heap *)

Heap_new(size) == [size |-> size, used |-> 0]

\* size - used in u64: with used > size a checked build panics and a
\* wrapping build yields 2^64 - (used - size)
AvailableOverflows(heap) == heap.used > heap.size

\* available() >= need, for the wrapped value too: 2^64 - (used - size)
\* exceeds every need the model makes
AvailableCovers(heap, need) ==
    IF AvailableOverflows(heap) THEN TRUE ELSE heap.size - heap.used >= need

Heap_alloc(heap, size) == [heap EXCEPT !.used = @ + size]

Heap_free(heap, size) == [heap EXCEPT !.used = @ - size]

-----------------------------------------------------------------------------
(* SmartAllocator *)

NumTypes == Cardinality(TypeIds)

SmartAllocator_new(asize, cpb, min, max) ==
    [allocators |-> [i \in TypeIds |-> CombinedAllocator_new(i, asize, cpb, min, max)],
     heaps |-> [h \in HeapIds |-> Heap_new(MemoryHeaps[h])]]

\* the first filter of alloc
Compatible(index, prop, reqs) ==
    /\ BitAnd(Pow2(index), reqs.type_mask) = Pow2(index)
    /\ prop \subseteq MemoryTypes[index].properties

\* what the second filter compares the heap's available() with
Need(reqs) == reqs.size + reqs.alignment

\* the lazy filter chain up to next(): scans the types from index on;
\* count is compatible_count.  index -1 is None.
RECURSIVE SelectFrom(_, _, _, _, _, _)
SelectFrom(index, count, hp, prop, reqs, bld) ==
    IF index >= NumTypes
    THEN [index |-> -1, count |-> count, panic |-> FALSE]
    ELSE IF ~Compatible(index, prop, reqs)
    THEN SelectFrom(index + 1, count, hp, prop, reqs, bld)
    ELSE LET heap == hp[MemoryTypes[index].heap_index]
         IN IF AvailableOverflows(heap) /\ bld = "debug"
            THEN [index |-> -1, count |-> count + 1, panic |-> TRUE]
            ELSE IF AvailableCovers(heap, Need(reqs))
            THEN [index |-> index, count |-> count + 1, panic |-> FALSE]
            ELSE SelectFrom(index + 1, count + 1, hp, prop, reqs, bld)

Select(hp, prop, reqs, bld) == SelectFrom(0, 0, hp, prop, reqs, bld)

\* the builds whose alloc can differ in a state: both when some heap's
\* available() overflows, else one stands for both
BuildsAt(hp) ==
    IF \E h \in HeapIds : AvailableOverflows(hp[h]) THEN Builds ELSE {"release"}

\* SelectError that does not consult compatible_count
SelectError_uncounted(count) == "NoCompatibleMemoryType"

\* the error of ok_or
SelectError(count) ==
    IF count = 0 THEN "NoCompatibleMemoryType" ELSE "OutOfMemory"

\* SmartBlock(CombinedBlock, index)
SmartBlock(block, index) ==
    [mem |-> block.mem, start |-> block.start, end |-> block.end,
     kind |-> block.kind, tag |-> block.tag, index |-> index]
NoSmartBlock == SmartBlock(NoCombinedBlock, 0)
Inner(block) == CombinedBlock(block, block.kind, block.tag)

\* what a SmartAllocator call returns; index is the memory type alloc
\* selected (-1: none)
SResult(res, err, block, index, allocs, hp, dev) ==
    [res |-> res, err |-> err, block |-> block, index |-> index,
     allocators |-> allocs, heaps |-> hp, dev |-> dev]

\* the heap alloc charges and the amount
ChargeHeap(hp, index, block) ==
    [hp EXCEPT ![MemoryTypes[index].heap_index] = Heap_alloc(@, Size(block))]

SmartAllocator_alloc(allocs, hp, dev, d, ty, prop, reqs, bld) ==
    LET Charged(index, r) ==
            IF r.res # "Ok"
            THEN SResult(r.res, r.err, NoSmartBlock, index,
                         [allocs EXCEPT ![index] = r.self], hp, r.dev)
            ELSE SResult("Ok", "", SmartBlock(r.block, index), index,
                         [allocs EXCEPT ![index] = r.self],
                         ChargeHeap(hp, index, r.block), r.dev)
        Forwarded(sel) ==
            IF sel.panic
            THEN SResult("panic", "", NoSmartBlock, -1, allocs, hp, dev)
            ELSE IF sel.index = -1
            THEN SResult("Err", SelectError(sel.count), NoSmartBlock, -1,
                         allocs, hp, dev)
            ELSE Charged(sel.index,
                         CombinedAllocator_alloc(allocs[sel.index], dev, d, ty, reqs))
    IN Forwarded(Select(hp, prop, reqs, bld))

\* CreditHeap indexing the heaps by the memory type's index
CreditHeap_by_type(hp, index, block) ==
    [hp EXCEPT ![index] = Heap_free(@, Size(block))]

\* the heap free credits and the amount
CreditHeap(hp, index, block) ==
    [hp EXCEPT ![MemoryTypes[index].heap_index] = Heap_free(@, Size(block))]

SmartAllocator_free(allocs, hp, dev, block) ==
    LET index == block.index
    IN IF hp[MemoryTypes[index].heap_index].used < Size(block)
       THEN SResult("panic", "", NoSmartBlock, index, allocs, hp, dev)
       ELSE LET Credited(hp2, r) ==
                    SResult(r.res, "", NoSmartBlock, index,
                            [allocs EXCEPT ![index] = r.self], hp2, r.dev)
            IN Credited(CreditHeap(hp, index, block),
                        CombinedAllocator_free(allocs[index], dev, Inner(block)))

\* iter().any(is_used): stops at the first used allocator; an is_used that
\* panics on the way panics the call
RECURSIVE AnyUsedFrom(_, _)
AnyUsedFrom(index, allocs) ==
    IF index >= NumTypes THEN "false"
    ELSE LET Rest(u) == IF u = "false" THEN AnyUsedFrom(index + 1, allocs) ELSE u
         IN Rest(CombinedAllocator_is_used(allocs[index]))

SmartAllocator_is_used(allocs) == AnyUsedFrom(0, allocs)

\* allocator.dispose(device).unwrap() for each drained allocator
RECURSIVE DisposeFrom(_, _, _)
DisposeFrom(index, allocs, dev) ==
    IF index >= NumTypes
    THEN SResult("Ok", "", NoSmartBlock, -1, allocs, <<>>, dev)
    ELSE LET Rest(r) ==
                 IF r.res # "Ok"
                 THEN SResult("panic", "", NoSmartBlock, index,
                              [allocs EXCEPT ![index] = r.self], <<>>, r.dev)
                 ELSE DisposeFrom(index + 1, [allocs EXCEPT ![index] = r.self], r.dev)
         IN Rest(CombinedAllocator_dispose(allocs[index], dev))

SmartAllocator_dispose(allocs, hp, dev) ==
    LET Drained(r) ==
            SResult(r.res, "", NoSmartBlock, r.index, r.allocators, hp, r.dev)
        Checked(u) ==
            IF u = "panic" THEN SResult("panic", "", NoSmartBlock, -1, allocs, hp, dev)
            ELSE IF u = "true" THEN SResult("Err", "", NoSmartBlock, -1, allocs, hp, dev)
            ELSE Drained(DisposeFrom(0, allocs, dev))
    IN Checked(SmartAllocator_is_used(allocs))

-----------------------------------------------------------------------------
(* The caller: any sequence of calls on a SmartAllocator (Spec), or on the *)
(* CombinedAllocator of memory type 0 alone (SpecCombined)                 *)

Requirements(size, alignment, mask) ==
    [size |-> size, alignment |-> alignment, type_mask |-> mask]

Requests(ty) ==
    {Requirements(s[1], s[2], m) : s \in ReqShapes[ty], m \in ReqMasks}

SmartRequests(ty) ==
    {Requirements(s[1], s[2], m) : s \in SmartReqShapes[ty], m \in ReqMasks}

\* the record of a call: the operation, its outcome, the block it returned
\* or consumed, the memory type it selected (-1: none) and the device
\* memories it passed to free_memory
Call(op, res, err, block, index, released) ==
    [op |-> op, res |-> res, err |-> err, block |-> block, index |-> index,
     released |-> released]

StatusAfter(res) ==
    IF res = "panic" THEN "panicked" ELSE "live"

ArenaBound(allocs) ==
    \A i \in TypeIds : allocs[i].arenas.next_arena_id <= MaxArenaId

Init ==
    LET s == SmartAllocator_new(arena_size, chunks_per_block,
                                min_chunk_size, max_chunk_size)
    IN /\ allocators = s.allocators
       /\ heaps = s.heaps
       /\ device = {}
       /\ live = EmptyBag
       /\ status = "live"
       /\ ret = Call("new", "Ok", "", NoSmartBlock, -1, {})

Alloc ==
    /\ status = "live"
    /\ BagCardinality(live) < MaxLive
    /\ \E ty \in Types, prop \in ReqProps, d \in DeviceOutcomes(device),
          bld \in BuildsAt(heaps) :
      \E reqs \in SmartRequests(ty) :
        \E r \in {SmartAllocator_alloc(allocators, heaps, device, d, ty, prop,
                                       reqs, bld)} :
           /\ ArenaBound(r.allocators)
           /\ allocators' = r.allocators
           /\ heaps' = r.heaps
           /\ device' = r.dev
           /\ live' = IF r.res = "Ok" THEN live (+) SetToBag({r.block}) ELSE live
           /\ status' = StatusAfter(r.res)
           /\ ret' = Call("alloc", r.res, r.err, r.block, r.index, device \ r.dev)

Free ==
    /\ status = "live"
    /\ \E b \in BagToSet(live) :
        \E r \in {SmartAllocator_free(allocators, heaps, device, b)} :
           /\ allocators' = r.allocators
           /\ heaps' = r.heaps
           /\ device' = r.dev
           /\ live' = live (-) SetToBag({b})
           /\ status' = StatusAfter(r.res)
           /\ ret' = Call("free", r.res, "", b, b.index, device \ r.dev)

IsUsed ==
    /\ status = "live"
    /\ \E u \in {SmartAllocator_is_used(allocators)} :
          /\ status' = StatusAfter(u)
          /\ ret' = Call("is_used", u, "", NoSmartBlock, -1, {})
    /\ UNCHANGED <<allocators, heaps, device, live>>

Dispose ==
    /\ status = "live"
    /\ \E r \in {SmartAllocator_dispose(allocators, heaps, device)} :
          /\ allocators' = r.allocators
          /\ heaps' = r.heaps
          /\ device' = r.dev
          /\ status' = IF r.res = "Ok" THEN "disposed" ELSE StatusAfter(r.res)
          /\ ret' = Call("dispose", r.res, "", NoSmartBlock, -1,
                         device \ r.dev)
    /\ UNCHANGED live

Next == Alloc \/ Free \/ IsUsed \/ Dispose

Spec == Init /\ [][Next]_vars

(* the same calls made on allocators[0], a CombinedAllocator, directly *)

CombinedAlloc ==
    /\ status = "live"
    /\ BagCardinality(live) < MaxLive
    /\ \E ty \in Types, d \in DeviceOutcomes(device) :
      \E reqs \in Requests(ty) :
        \E r \in {CombinedAllocator_alloc(allocators[0], device, d, ty, reqs)} :
           /\ ArenaBound([allocators EXCEPT ![0] = r.self])
           /\ allocators' = [allocators EXCEPT ![0] = r.self]
           /\ device' = r.dev
           /\ live' = IF r.res = "Ok"
                      THEN live (+) SetToBag({SmartBlock(r.block, 0)})
                      ELSE live
           /\ status' = StatusAfter(r.res)
           /\ ret' = Call("alloc", r.res, r.err, SmartBlock(r.block, 0), 0,
                          device \ r.dev)
    /\ UNCHANGED heaps

CombinedFree ==
    /\ status = "live"
    /\ \E b \in BagToSet(live) :
        \E r \in {CombinedAllocator_free(allocators[0], device, Inner(b))} :
           /\ allocators' = [allocators EXCEPT ![0] = r.self]
           /\ device' = r.dev
           /\ live' = live (-) SetToBag({b})
           /\ status' = StatusAfter(r.res)
           /\ ret' = Call("free", r.res, "", b, 0, device \ r.dev)
    /\ UNCHANGED heaps

CombinedIsUsed ==
    /\ status = "live"
    /\ \E u \in {CombinedAllocator_is_used(allocators[0])} :
          /\ status' = StatusAfter(u)
          /\ ret' = Call("is_used", u, "", NoSmartBlock, 0, {})
    /\ UNCHANGED <<allocators, heaps, device, live>>

CombinedDispose ==
    /\ status = "live"
    /\ \E r \in {CombinedAllocator_dispose(allocators[0], device)} :
          /\ allocators' = [allocators EXCEPT ![0] = r.self]
          /\ device' = r.dev
          /\ status' = IF r.res = "Ok" THEN "disposed" ELSE StatusAfter(r.res)
          /\ ret' = Call("dispose", r.res, "", NoSmartBlock, 0,
                         device \ r.dev)
    /\ UNCHANGED <<heaps, live>>

NextCombined == CombinedAlloc \/ CombinedFree \/ CombinedIsUsed \/ CombinedDispose

SpecCombined == Init /\ [][NextCombined]_vars

-----------------------------------------------------------------------------
(* Properties *)

\* the blocks of memory type i the caller holds
LiveOf(i) == {b \in BagToSet(live) : b.index = i}

\* C1: in every state reached by alloc and free calls on a
\* CombinedAllocator, is_used() returns true iff at least one issued block
\* (chunked, arena or root path) has not been freed.
C1_IsUsedIffOutstanding ==
    status = "live" =>
        CombinedAllocator_is_used(allocators[0])
            = (IF LiveOf(0) # {} THEN "true" ELSE "false")

\* C2: once every issued block has been freed, is_used() returns false and
\* dispose() returns Ok.
C2_BalancedThenUnusedAndDisposed ==
    (live = EmptyBag /\ ret.op = "is_used" => ret.res = "false")
    /\ (live = EmptyBag /\ ret.op = "dispose" => ret.res = "Ok")

\* C3: while an issued block is outstanding (also one served directly from
\* root), dispose() returns Err with the allocator, not Ok and not an abort.
C3_DisposeWhileOutstandingIsErr ==
    (live # EmptyBag /\ ret.op = "dispose") => ret.res = "Err"

\* the device memories of the backing blocks a child holds
ArenaMems(arenas) ==
    {arenas.arenas[k].block.mem : k \in 1..Len(arenas.arenas)}
ChunkMems(chunks) ==
    UNION {{chunks.nodes[k].blocks[j].mem : j \in 1..Len(chunks.nodes[k].blocks)}
           : k \in 1..Len(chunks.nodes)}

\* a step that is a dispose() call returning Err
FailedDisposeStep == ret'.op = "dispose" /\ ret'.res = "Err"

\* C4 as claimed: a dispose() that fails returns the allocator unchanged:
\* root's outstanding count, the children's backing blocks and the device
\* memories are as before (no free_memory call), and is_used() is true.
C4_FailedDisposeUnchanged ==
    [][FailedDisposeStep =>
        /\ allocators'[0].root.allocations = allocators[0].root.allocations
        /\ ArenaMems(allocators'[0].arenas) = ArenaMems(allocators[0].arenas)
        /\ ChunkMems(allocators'[0].chunks) = ChunkMems(allocators[0].chunks)
        /\ device' = device /\ ret'.released = {}
        /\ CombinedAllocator_is_used(allocators'[0]) = "true"]_vars

\* C4 amended: a dispose() that fails leaves each child that has
\* outstanding blocks as it was and is_used() true; a child without
\* outstanding blocks is replaced by a new empty one and exactly its
\* backing blocks are freed on the device and subtracted from root's count.
C4_FailedDisposeKeepsUsedChildren ==
    [][FailedDisposeStep =>
        LET c == allocators[0]
            c2 == allocators'[0]
            au == ArenaAllocator_is_used(c.arenas)
            cu == ChunkedAllocator_is_used(c.chunks)
            released == (IF au THEN {} ELSE ArenaMems(c.arenas))
                        \cup (IF cu THEN {} ELSE ChunkMems(c.chunks))
        IN /\ au \/ cu
           /\ c2.arenas = IF au THEN c.arenas
                          ELSE ArenaAllocator_new(c.arenas.arena_size, c.root.id)
           /\ c2.chunks = IF cu THEN c.chunks
                          ELSE ChunkedAllocator_new(c.chunks.chunks_per_block,
                                                    c.chunks.min_chunk_size,
                                                    c.chunks.max_chunk_size,
                                                    c.root.id)
           /\ device' = device \ released /\ ret'.released = released
           /\ c2.root.allocations = c.root.allocations - Cardinality(released)
           /\ live' = live
           /\ CombinedAllocator_is_used(c2) = "true"]_vars

\* a failed dispose() has returned an allocator whose chunked child is in
\* use and whose arena child, idle with a backing block before the call,
\* has been rebuilt
C4_Witness ==
    /\ ret.op = "dispose" /\ ret.res = "Err" /\ ret.released # {}
    /\ ChunkedAllocator_is_used(allocators[0].chunks)
    /\ allocators[0].arenas.arenas = <<>>
    /\ \E b \in BagToSet(live) : b.kind = "Chunked"

-----------------------------------------------------------------------------
(* Properties of the SmartAllocator *)

\* C5: for every heap, used <= size, so available() never underflows.
C5_HeapUsedWithinSize ==
    \A h \in HeapIds : heaps[h].used <= heaps[h].size

RECURSIVE SumSizes(_)
SumSizes(blocks) ==
    IF blocks = {} THEN 0
    ELSE LET b == CHOOSE x \in blocks : TRUE
         IN Size(b) * CopiesIn(b, live) + SumSizes(blocks \ {b})

\* the live blocks whose memory type maps to heap h
ChargedTo(h) ==
    {b \in BagToSet(live) : MemoryTypes[b.index].heap_index = h}

\* C6: heaps[h].used is the sum of size() over the live blocks whose memory
\* type maps to heap h, after every call, failed allocs included.
C6_HeapUsedIsSumOfLive ==
    \A h \in HeapIds : heaps[h].used = SumSizes(ChargedTo(h))

\* a free has been credited while blocks charged to both heaps are live
C6_Witness ==
    /\ ret.op = "free" /\ ret.res = "Ok"
    /\ \A h \in HeapIds : ChargedTo(h) # {} /\ heaps[h].used > 0

\* bit index of a type mask
MaskHas(mask, index) == (mask \div Pow2(index)) % 2 = 1

\* the types the specification calls compatible and feasible
CompatibleTypes(prop, reqs) ==
    {i \in TypeIds : MaskHas(reqs.type_mask, i)
                     /\ prop \subseteq MemoryTypes[i].properties}
FeasibleTypes(prop, reqs) ==
    {i \in CompatibleTypes(prop, reqs) :
        LET h == MemoryTypes[i].heap_index
        IN heaps[h].size - heaps[h].used >= reqs.size + reqs.alignment}

\* every alloc call that can be made in the current state, with its result
SmartAllocCalls ==
    {[ty |-> ty, prop |-> prop, reqs |-> reqs,
      r |-> SmartAllocator_alloc(allocators, heaps, device, d, ty, prop, reqs, bld)] :
        <<ty, reqs>> \in UNION {{<<t, q>> : q \in SmartRequests(t)} : t \in Types},
        prop \in ReqProps, d \in DeviceOutcomes(device), bld \in BuildsAt(heaps)}

\* C7: alloc forwards the request to the lowest-index type among the
\* compatible and feasible ones, and tags the block with that index.
C7_SelectsLowestFeasible ==
    status = "live" =>
        \A c \in SmartAllocCalls :
            LET ok == FeasibleTypes(c.prop, c.reqs)
            IN IF ok = {} THEN c.r.index = -1
               ELSE /\ c.r.index \in ok
                    /\ \A i \in ok : c.r.index <= i
                    /\ c.r.res = "Ok" => c.r.block.index = c.r.index

\* C8: when alloc selects no type, the error is NoCompatibleMemoryType iff
\* no type is compatible, OutOfMemory iff some type is compatible and none
\* of them feasible; no CombinedAllocator is called and no heap charged.
C8_SelectionErrors ==
    status = "live" =>
        \A c \in SmartAllocCalls :
            (c.r.res = "Err" /\ c.r.index = -1) =>
                /\ c.r.err = "NoCompatibleMemoryType"
                        <=> CompatibleTypes(c.prop, c.reqs) = {}
                /\ c.r.err = "OutOfMemory"
                        <=> /\ CompatibleTypes(c.prop, c.reqs) # {}
                            /\ FeasibleTypes(c.prop, c.reqs) = {}
                /\ c.r.allocators = allocators
                /\ c.r.heaps = heaps
                /\ c.r.dev = device

\* an alloc has failed with OutOfMemory without selecting a type, while
\* blocks are live
C8_Witness ==
    /\ ret.op = "alloc" /\ ret.res = "Err" /\ ret.index = -1
    /\ ret.err = "OutOfMemory"
    /\ live # EmptyBag

-----------------------------------------------------------------------------
(* Properties of the blocks a CombinedAllocator issues *)

\* every alloc call that can be made on allocators[0] in the current state
CombinedAllocCalls ==
    {[ty |-> ty, reqs |-> reqs,
      r |-> CombinedAllocator_alloc(allocators[0], device, d, ty, reqs)] :
        <<ty, reqs>> \in UNION {{<<t, q>> : q \in Requests(t)} : t \in Types},
        d \in DeviceOutcomes(device)}

\* C9: every block returned for a General request (chunked or root path)
\* starts at a multiple of reqs.alignment and has size() >= reqs.size.
C9_BlockFitsRequest ==
    status = "live" =>
        \A c \in CombinedAllocCalls :
            (c.ty = "General" /\ c.r.res = "Ok") =>
                /\ c.r.block.start % c.reqs.alignment = 0
                /\ Size(c.r.block) >= c.reqs.size

\* an alloc has returned a chunk from a non-empty free queue, at a non-zero
\* offset of its backing block
C9_Witness ==
    /\ ret.op = "alloc" /\ ret.res = "Ok"
    /\ ret.block.kind = "Chunked" /\ ret.block.start > 0

Disjoint(a, b) == a.end <= b.start \/ b.end <= a.start

\* C10: two distinct live blocks are on different device memories or have
\* disjoint ranges, and no block is held twice.
C10_LiveBlocksDisjoint ==
    /\ \A b \in BagToSet(live) : CopiesIn(b, live) = 1
    /\ \A a, b \in BagToSet(live) :
        (a # b /\ a.mem = b.mem) => Disjoint(a, b)

\* the first chunk of a backing block has been issued again, after a free,
\* while the second chunk of that block is live
C10_Witness ==
    /\ ret.op = "alloc" /\ ret.res = "Ok"
    /\ ret.block.kind = "Chunked" /\ ret.block.start = 0
    /\ \E b \in BagToSet(live) :
        b.kind = "Chunked" /\ b.mem = ret.block.mem /\ b.start > 0

-----------------------------------------------------------------------------
(* Properties of the ChunkedAllocator of allocators[0] *)

\* every alloc call that can be made on the chunked child in the current
\* state, with the device outcome d it would meet and its result
ChunkedAllocCalls ==
    {[reqs |-> reqs, d |-> d,
      r |-> ChunkedAllocator_alloc(allocators[0].chunks, allocators[0].root,
                                   device, d, reqs)] :
        reqs \in UNION {Requests(t) : t \in Types},
        d \in DeviceOutcomes(device)}

-----------------------------------------------------------------------------
(* Routing inside the CombinedAllocator *)

\* the number of backing blocks the two children of c hold
BackingBlocks(c) ==
    Len(c.arenas.arenas)
    + Cardinality(UNION {{<<k, j>> : j \in 1..Len(c.chunks.nodes[k].blocks)}
                         : k \in 1..Len(c.chunks.nodes)})

\* the live blocks of memory type i served by root directly
LiveRootBlocks(i) == {b \in LiveOf(i) : b.kind = "Root"}

\* C12: alloc routes by the request.  ShortLived goes to the arena child and
\* the block is tagged Arena(arena id); General above max_chunk_size goes
\* to root, is tagged Root and is [0, reqs.size) of a fresh device memory;
\* General up to max_chunk_size goes to the chunked child and is tagged
\* Chunked(block index).  The children's backing blocks all come from the
\* one root: its count is their number plus the live Root blocks.
C12_RoutesByRequest ==
    status = "live" =>
        LET c0 == allocators[0]
        IN /\ \A c \in CombinedAllocCalls :
                LET b == c.r.block
                    new == c.r.self
                IN /\ c.ty = "ShortLived" =>
                        /\ new.chunks = c0.chunks
                        /\ c.r.res = "Ok" =>
                            /\ b.kind = "Arena"
                            /\ \E k \in 1..Len(new.arenas.arenas) :
                                /\ new.arenas.arenas[k].id = b.tag
                                /\ new.arenas.arenas[k].block.mem = b.mem
                   /\ (c.ty = "General" /\ c.reqs.size > c0.chunks.max_chunk_size) =>
                        /\ new.arenas = c0.arenas /\ new.chunks = c0.chunks
                        /\ c.r.res = "Ok" =>
                            /\ b.kind = "Root"
                            /\ b.start = 0 /\ b.end = c.reqs.size
                            /\ b.mem \notin device
                            /\ c.r.dev = device \cup {b.mem}
                            /\ new.root.allocations = c0.root.allocations + 1
                   /\ (c.ty = "General" /\ c.reqs.size <= c0.chunks.max_chunk_size) =>
                        /\ new.arenas = c0.arenas
                        /\ c.r.res = "Ok" =>
                            /\ b.kind = "Chunked"
                            /\ \E k \in 1..Len(new.chunks.nodes) :
                                /\ new.chunks.nodes[k].chunk_size = Size(b)
                                /\ b.tag < Len(new.chunks.nodes[k].blocks)
                                /\ new.chunks.nodes[k].blocks[b.tag + 1].mem = b.mem
           /\ c0.root.allocations
                = BackingBlocks(c0) + Cardinality(LiveRootBlocks(0))
           /\ ArenaMems(c0.arenas) \cup ChunkMems(c0.chunks) \subseteq device

\* a General request above max_chunk_size has been served by root while a
\* block of the arena child is live
C12_Witness ==
    /\ ret.op = "alloc" /\ ret.res = "Ok" /\ ret.block.kind = "Root"
    /\ \E b \in BagToSet(live) : b.kind = "Arena"

-----------------------------------------------------------------------------
(* Reuse of freed chunks *)

\* the requests of the size class a chunk of the given size belongs to,
\* that the chunked child accepts
SameClass(chunks, reqs, size) ==
    /\ 0 < reqs.size /\ reqs.size <= chunks.max_chunk_size
    /\ MaskHas(reqs.type_mask, chunks.id)
    /\ pick_node(chunks, EffectiveSize(reqs)) = pick_node(chunks, size)

\* C13: right after free(b) of a chunked block, an alloc in the same size
\* class succeeds whatever the device would answer, makes no upstream
\* (root/device) allocation and returns the chunk just freed: same memory,
\* same range, same block index.
C13_FreedChunkIsReused ==
    (/\ status = "live"
     /\ ret.op = "free" /\ ret.res = "Ok" /\ ret.block.kind = "Chunked") =>
        \A c \in ChunkedAllocCalls :
            SameClass(allocators[0].chunks, c.reqs, Size(ret.block)) =>
                /\ c.r.res = "Ok"
                /\ c.r.block = RawBlock(ret.block.mem, ret.block.start, ret.block.end)
                /\ c.r.tag = ret.block.tag
                /\ c.r.dev = device
                /\ c.r.root = allocators[0].root

\* a chunk has been freed into a free queue that already held another
\* chunk, so that the order of the queue decides which one is issued next
C13_Witness ==
    /\ status = "live"
    /\ ret.op = "free" /\ ret.res = "Ok" /\ ret.block.kind = "Chunked"
    /\ \E k \in 1..Len(allocators[0].chunks.nodes) :
        /\ allocators[0].chunks.nodes[k].chunk_size = Size(ret.block)
        /\ Len(allocators[0].chunks.nodes[k].free) >= 2
    /\ \E c \in ChunkedAllocCalls :
        SameClass(allocators[0].chunks, c.reqs, Size(ret.block))

-----------------------------------------------------------------------------
(* The device call sequence *)

RECURSIVE SumAllocations(_)
\* the outstanding counts of the roots of the given memory types, summed
SumAllocations(ids) ==
    IF ids = {} THEN 0
    ELSE LET i == CHOOSE x \in ids : TRUE
         IN allocators[i].root.allocations + SumAllocations(ids \ {i})

\* C14: every successful allocate_memory is matched by exactly one
\* free_memory of the same memory.  The roots' outstanding counts (one up
\* per allocate_memory, one down per free_memory call) always add up to
\* the number of device memories allocated and not yet freed, so no call
\* frees a memory twice; and after a successful dispose none is left.
C14_DeviceCallsBalanced ==
    /\ SumAllocations(TypeIds) = Cardinality(device)
    /\ status = "disposed" => device = {}

\* a dispose has succeeded and freed backing blocks on the device, after
\* both children had been used
C14_Witness ==
    /\ status = "disposed" /\ ret.op = "dispose" /\ ret.res = "Ok"
    /\ Cardinality(ret.released) >= 2
    /\ allocators[0].arenas.next_arena_id > 0

\* C15: no operation calls device.free_memory on a memory that a live
\* block still references: the memories the last call released and the
\* memories of the blocks the caller holds after it are apart, and every
\* live block's memory is still allocated on the device.
C15_NoFreeOfReferencedMemory ==
    \A b \in BagToSet(live) :
        /\ b.mem \notin ret.released
        /\ b.mem \in device

\* a free has released a device memory while the caller holds other blocks
C15_Witness ==
    /\ ret.op = "free" /\ ret.res = "Ok" /\ ret.released # {}
    /\ live # EmptyBag

-----------------------------------------------------------------------------
(* The free path *)

\* C16: every block the caller holds can be passed to free at any time:
\* no assertion of the free path fails, a chunked block is routed by its
\* size to the node that issued it (chunk_size equal to the block's size,
\* start a multiple of it, blocks[block index] on the block's memory), a
\* root block starts at 0, and only the sub-allocator named by the tag is
\* touched.
C16_FreePathAccepts ==
    /\ ret.op = "free" => ret.res = "Ok"
    /\ status = "live" =>
        \A b \in LiveOf(0) :
            LET c0 == allocators[0]
                r == CombinedAllocator_free(c0, device, Inner(b))
                k == pick_node(c0.chunks, Size(b))
            IN /\ r.res = "Ok"
               /\ b.kind = "Chunked" =>
                    /\ k < Len(c0.chunks.nodes)
                    /\ c0.chunks.nodes[k + 1].chunk_size = Size(b)
                    /\ b.start % c0.chunks.nodes[k + 1].chunk_size = 0
                    /\ b.tag < Len(c0.chunks.nodes[k + 1].blocks)
                    /\ c0.chunks.nodes[k + 1].blocks[b.tag + 1].mem = b.mem
                    /\ r.self.arenas = c0.arenas /\ r.self.root = c0.root
                    /\ \A j \in 1..Len(c0.chunks.nodes) :
                        j # k + 1 => r.self.chunks.nodes[j] = c0.chunks.nodes[j]
               /\ b.kind = "Root" =>
                    /\ b.start = 0
                    /\ r.self.arenas = c0.arenas /\ r.self.chunks = c0.chunks
               /\ b.kind = "Arena" => r.self.chunks = c0.chunks

\* a chunk of a node's second backing block has been freed while other
\* chunks of the node are live
C16_Witness ==
    /\ ret.op = "free" /\ ret.res = "Ok"
    /\ ret.block.kind = "Chunked" /\ ret.block.tag = 1
    /\ \E b \in BagToSet(live) :
        b.kind = "Chunked" /\ Size(b) = Size(ret.block) /\ b.tag = 0

-----------------------------------------------------------------------------
(* The consistency assertion of CombinedAllocator::is_used *)

\* C17: in every reachable state the two sides of the assertion inside
\* is_used() agree: (arenas.is_used() or chunks.is_used()) equals
\* root.is_used(); and once every issued block has been freed, root has no
\* outstanding allocation.
C17_IsUsedAssertionHolds ==
    status = "live" =>
        /\ ChildrenUsed(allocators[0]) = RootAllocator_is_used(allocators[0].root)
        /\ LiveOf(0) = {} => allocators[0].root.allocations = 0

-----------------------------------------------------------------------------
(* Size classes *)

\* the size classes a ChunkedAllocator can be asked for
Classes == 0..8

\* ceil(log2(s / min_chunk_size)) clamped at 0: the least k whose
\* min_chunk_size * 2^k covers s
LeastClass(chunks, s) ==
    CHOOSE k \in Classes :
        /\ chunks.min_chunk_size * Pow2(k) >= s
        /\ k = 0 \/ chunks.min_chunk_size * Pow2(k - 1) < s

\* C18: a block returned for effective size s = max(size, alignment) comes
\* from node k = ceil(log2(s / min_chunk_size)) clamped at 0, has size
\* exactly min_chunk_size * 2^k, leaves the other nodes as they were, and
\* pick_node of its size, as free computes it, is k again.
C18_BlockFromLeastClass ==
    status = "live" =>
        \A c \in ChunkedAllocCalls :
            c.r.res = "Ok" =>
                LET chunks == allocators[0].chunks
                    k == LeastClass(chunks, Max(c.reqs.size, c.reqs.alignment))
                    node == c.r.self.nodes[k + 1]
                IN /\ Size(c.r.block) = chunks.min_chunk_size * Pow2(k)
                   /\ k < Len(c.r.self.nodes)
                   /\ node.chunk_size = Size(c.r.block)
                   /\ c.r.tag < Len(node.blocks)
                   /\ node.blocks[c.r.tag + 1].mem = c.r.block.mem
                   /\ <<c.r.tag, c.r.block.start \div node.chunk_size>>
                        \notin {node.free[j] : j \in 1..Len(node.free)}
                   /\ \A j \in 1..Len(chunks.nodes) :
                        j # k + 1 => c.r.self.nodes[j] = chunks.nodes[j]
                   /\ pick_node(chunks, Size(c.r.block)) = k

\* a block of size class 1 has been issued while a block of class 0 is live
C18_Witness ==
    /\ ret.op = "alloc" /\ ret.res = "Ok" /\ ret.block.kind = "Chunked"
    /\ Size(ret.block) = 2 * min_chunk_size
    /\ \E b \in BagToSet(live) : b.kind = "Chunked" /\ Size(b) = min_chunk_size

-----------------------------------------------------------------------------
(* The node sequence *)

\* C19: node k exists iff an allocation in class k has occurred, and an
\* allocation in class k extends the node sequence only up to class k.
\* A node's backing blocks are dropped only together with the whole node
\* sequence, so a node that served an allocation holds a backing block:
\* every existing node holds one, and an alloc of class k leaves at most
\* k + 1 nodes unless more existed before.
C19_NodesOnlyForUsedClasses ==
    status = "live" =>
        LET chunks == allocators[0].chunks
        IN /\ \A k \in 1..Len(chunks.nodes) : chunks.nodes[k].blocks # <<>>
           /\ \A c \in ChunkedAllocCalls :
                c.r.res = "Ok" =>
                    Len(c.r.self.nodes)
                        <= Max(Len(chunks.nodes),
                               1 + LeastClass(chunks, Max(c.reqs.size,
                                                          c.reqs.alignment)))

-----------------------------------------------------------------------------
(* The chunks of a ChunkedNode *)

\* the live ChunkedBlocks issued by a node: its size class is its chunk_size
LiveChunks(node) ==
    {b \in LiveOf(0) : b.kind = "Chunked" /\ Size(b) = node.chunk_size}

\* the positions of (block_index, chunk_index) in the node's free queue
FreeAt(node, bi, ci) ==
    {j \in 1..Len(node.free) : node.free[j] = <<bi, ci>>}

\* the live ChunkedBlocks that hold (block_index, chunk_index)
HeldBy(node, bi, ci) ==
    {b \in LiveChunks(node) : b.tag = bi /\ b.start = ci * node.chunk_size}

\* C20: in every node, each pair (block_index, chunk_index) with
\* block_index < blocks.len() and chunk_index < chunks_per_block occurs
\* exactly once in the free queue or is held by exactly one live
\* ChunkedBlock, never both and never neither; the queue and the live
\* blocks hold nothing else, so free.len() plus the live chunks is
\* blocks.len() * chunks_per_block.
C20_ChunkInOnePlace ==
    \A k \in 1..Len(allocators[0].chunks.nodes) :
        LET node == allocators[0].chunks.nodes[k]
        IN /\ \A bi \in 0..(Len(node.blocks) - 1),
                 ci \in 0..(node.chunks_per_block - 1) :
                /\ Cardinality(FreeAt(node, bi, ci))
                    + Cardinality(HeldBy(node, bi, ci)) = 1
                /\ \A b \in HeldBy(node, bi, ci) :
                    /\ CopiesIn(b, live) = 1
                    /\ b.mem = node.blocks[bi + 1].mem
           /\ \A j \in 1..Len(node.free) :
                /\ node.free[j][1] < Len(node.blocks)
                /\ node.free[j][2] < node.chunks_per_block
           /\ \A b \in LiveChunks(node) :
                /\ b.tag < Len(node.blocks)
                /\ b.start \div node.chunk_size < node.chunks_per_block
           /\ Len(node.free) + Cardinality(LiveChunks(node))
                = Len(node.blocks) * node.chunks_per_block

\* a node with two backing blocks has chunks of both in its free queue and
\* chunks live, after a free
C20_Witness ==
    /\ ret.op = "free" /\ ret.res = "Ok"
    /\ \E k \in 1..Len(allocators[0].chunks.nodes) :
        LET node == allocators[0].chunks.nodes[k]
        IN /\ Len(node.blocks) = 2
           /\ LiveChunks(node) # {}
           /\ \E i, j \in 1..Len(node.free) : node.free[i][1] # node.free[j][1]

-----------------------------------------------------------------------------
(* Backing blocks of a ChunkedNode *)

\* the node of chunked child chunks that serves size class k; a node that
\* does not exist yet is the empty one grow would create
NodeOf(chunks, k) ==
    IF k < Len(chunks.nodes) THEN chunks.nodes[k + 1]
    ELSE ChunkedNode_new(ChunkSizeOf(chunks, k), chunks.chunks_per_block, chunks.id)

\* the chunk (block_index, chunk_index) of a node, as a block
ChunkAt(node, entry) ==
    RawBlock(node.blocks[entry[1] + 1].mem,
             entry[2] * node.chunk_size,
             entry[2] * node.chunk_size + node.chunk_size)

\* C21: a node asks its owner for a backing block only when its free queue
\* is empty (all its chunks are live), always with size chunk_size *
\* chunks_per_block, alignment chunk_size and type_mask 1 << id.  A new
\* backing block is exactly one upstream allocation; its chunk 0 is issued
\* and its other chunks are queued in ascending order; an alloc that finds
\* a queued chunk issues the front one and asks nothing upstream.  A node
\* therefore gains its n-th backing block only when (n - 1) *
\* chunks_per_block + 1 of its chunks become live.
C21_GrowsOnlyWhenEmpty ==
    status = "live" =>
        LET chunks == allocators[0].chunks
            root == allocators[0].root
        IN /\ \A k \in 1..Len(chunks.nodes) :
                LET n == chunks.nodes[k]
                IN /\ GrowRequirements(n)
                        = Requirements(n.chunk_size * n.chunks_per_block,
                                       n.chunk_size, Pow2(root.id))
                   /\ \A j \in 1..Len(n.blocks) :
                        /\ n.blocks[j].start = 0
                        /\ Size(n.blocks[j]) = n.chunk_size * n.chunks_per_block
           /\ \A c \in ChunkedAllocCalls :
                (c.reqs.size <= chunks.max_chunk_size /\ c.r.res # "panic") =>
                    LET k == LeastClass(chunks, Max(c.reqs.size, c.reqs.alignment))
                        old == NodeOf(chunks, k)
                        new == c.r.self.nodes[k + 1]
                        upstream == c.r.root.allocations - root.allocations
                    IN /\ upstream \in {0, 1}
                       /\ Cardinality(c.r.dev \ device) = upstream
                       /\ c.r.dev \ device \subseteq {c.d.mem}
                       /\ upstream = 1 <=>
                            /\ old.free = <<>>
                            /\ MaskHas(c.reqs.type_mask, chunks.id)
                            /\ c.d.ok
                       /\ upstream = 1 =>
                            /\ Cardinality(LiveChunks(old))
                                = Len(old.blocks) * old.chunks_per_block
                            /\ c.r.res = "Ok"
                            /\ new.blocks
                                = Append(old.blocks,
                                         RawBlock(c.d.mem, 0,
                                                  old.chunk_size * old.chunks_per_block))
                            /\ c.r.tag = Len(old.blocks)
                            /\ c.r.block = ChunkAt(new, <<Len(old.blocks), 0>>)
                            /\ new.free
                                = [i \in 1..(old.chunks_per_block - 1) |->
                                        <<Len(old.blocks), i>>]
                       /\ (upstream = 0 /\ c.r.res = "Ok") =>
                            /\ new.blocks = old.blocks
                            /\ c.r.tag = Head(old.free)[1]
                            /\ c.r.block = ChunkAt(old, Head(old.free))
                            /\ new.free = Tail(old.free)

\* the third allocation of a size class has just made its node take a
\* second backing block and issued that block's first chunk
C21_Witness ==
    /\ ret.op = "alloc" /\ ret.res = "Ok"
    /\ ret.block.kind = "Chunked" /\ ret.block.tag = 1 /\ ret.block.start = 0
    /\ \E k \in 1..Len(allocators[0].chunks.nodes) :
        LET n == allocators[0].chunks.nodes[k]
        IN /\ n.chunk_size = Size(ret.block)
           /\ Len(n.blocks) = 2
           /\ Cardinality(LiveChunks(n)) = n.chunks_per_block + 1

-----------------------------------------------------------------------------
(* Failure of device.allocate_memory *)

\* the alloc on CombinedAllocator c has to call device.allocate_memory: a
\* ShortLived request that the newest arena cannot hold, a General request
\* above max_chunk_size, or a General request whose node has no free chunk
NeedsUpstream(c, ty, reqs) ==
    IF ty = "ShortLived"
    THEN /\ MaskHas(reqs.type_mask, c.arenas.id)
         /\ reqs.size <= c.arenas.arena_size
         /\ \/ c.arenas.arenas = <<>>
            \/ ~ArenaFits(c.arenas, c.arenas.arenas[Len(c.arenas.arenas)], reqs)
    ELSE IF reqs.size > c.chunks.max_chunk_size THEN TRUE
    ELSE LET k == LeastClass(c.chunks, Max(reqs.size, reqs.alignment))
         IN /\ ChunkSizeOf(c.chunks, k) < c.chunks.max_chunk_size
            /\ MaskHas(reqs.type_mask, c.chunks.id)
            /\ NodeOf(c.chunks, k).free = <<>>

\* every alloc call that can be made on the SmartAllocator in the current
\* state with a device that refuses to allocate, and its result
FailedDeviceCalls ==
    {[ty |-> ty, prop |-> prop, reqs |-> reqs, d |-> d,
      r |-> SmartAllocator_alloc(allocators, heaps, device, d, ty, prop, reqs, bld)] :
        <<ty, reqs>> \in UNION {{<<t, q>> : q \in SmartRequests(t)} : t \in Types},
        prop \in ReqProps,
        d \in {x \in DeviceOutcomes(device) : ~x.ok},
        bld \in BuildsAt(heaps)}

\* C22: when device.allocate_memory fails during an alloc, its error is
\* what RootAllocator, ChunkedAllocator, CombinedAllocator and
\* SmartAllocator return; no other memory type is tried; root's outstanding
\* count, every chunk node's backing blocks and free queue (a node created
\* by the call has none), the arenas, the device and every heap's used are
\* as before the call.
C22_DeviceErrorPropagates ==
    status = "live" =>
        \A c \in FailedDeviceCalls :
            (/\ c.r.index # -1
             /\ NeedsUpstream(allocators[c.r.index], c.ty, c.reqs)) =>
                LET i == c.r.index
                    old == allocators[i]
                    new == c.r.allocators[i]
                IN /\ c.r.res = "Err" /\ c.r.err = c.d.err
                   /\ CombinedAllocator_alloc(old, device, c.d, c.ty, c.reqs).err
                        = c.d.err
                   /\ (c.ty = "General" /\ c.reqs.size <= old.chunks.max_chunk_size) =>
                        ChunkedAllocator_alloc(old.chunks, old.root, device,
                                               c.d, c.reqs).err = c.d.err
                   /\ RootAllocator_alloc(old.root, device, c.d, c.reqs).err = c.d.err
                   /\ \A j \in TypeIds : j # i => c.r.allocators[j] = allocators[j]
                   /\ new.root = old.root
                   /\ new.arenas = old.arenas
                   /\ Len(new.chunks.nodes) >= Len(old.chunks.nodes)
                   /\ \A k \in 1..Len(new.chunks.nodes) :
                        IF k <= Len(old.chunks.nodes)
                        THEN new.chunks.nodes[k] = old.chunks.nodes[k]
                        ELSE /\ new.chunks.nodes[k].blocks = <<>>
                             /\ new.chunks.nodes[k].free = <<>>
                   /\ c.r.heaps = heaps
                   /\ c.r.dev = device

\* an alloc has failed with the device's OutOfHostMemory on memory type 0
\* while blocks are live, and the same request could have been served by
\* memory type 1
C22_Witness ==
    /\ status = "live"
    /\ ret.op = "alloc" /\ ret.res = "Err" /\ ret.err = "OutOfHostMemory"
    /\ ret.index = 0
    /\ live # EmptyBag
    /\ \E c \in FailedDeviceCalls :
        /\ c.r.index = 0 /\ c.r.err = "OutOfHostMemory"
        /\ c.ty = "General" /\ c.reqs.size <= allocators[0].chunks.max_chunk_size
        /\ 1 \in FeasibleTypes(c.prop, c.reqs)

====
